---- MODULE Spec2Model ----
(***************************************************************************)
(* Bring-up sequence and flush callback of the two LVGL examples for the   *)
(* Guition S3 3.5" QSPI panel:                                             *)
(*   "manual"  = VA Testing/src/guition_3_5/ex01_hello_lvgl/main.cpp       *)
(*   "copilot" = VA Testing/src/guition_3_5/ex01_hello_lvgl_copilot/main.cpp *)
(* The panel driver (bb_spi_lcd), the graphics engine (LVGL) and the heap  *)
(* are external: their calls are modelled by the effect the examples can   *)
(* observe, with every outcome the examples test for or ignore.            *)
(***************************************************************************)
EXTENDS Integers, Sequences, FiniteSets, TLC

VARIABLES
    variant,      \* which example runs
    pc,           \* next statement of setup()/loop(), or a halt position
    lv_inited,    \* lv_init() has run
    tick_cb,      \* lv_tick_set_cb(my_tick) has run
    lcd_begun,    \* lcd.begin(...) has run
    w, h,         \* setup()'s locals w and h: the display size given to LVGL
    dma_buf,      \* the pointer dma_buf: "null", "heap" or "static"
    buf1,         \* the pointer buf1: "null" or "psram"
    disp_buf,     \* lv_draw_buf_t disp_buf: "uninit", "ok" or "err"
    disp,         \* the pointer disp: "null" or "created"
    flush_cb,     \* my_disp_flush is attached to disp
    scene,        \* create_hello_world_ui() has run
    area,         \* my_disp_flush: *area of the current/last invocation
    px_map,       \* my_disp_flush: the samples px_map points to
    fw, fh,       \* my_disp_flush: locals w and h
    y,            \* my_disp_flush: loop variable y
    src,          \* my_disp_flush: offset of src from px_map, in samples
    lcdWindow,    \* driver: the address window last set
    lcdWritten,   \* driver: samples received since the window was set
    addrCalls,    \* driver: setAddrWindow calls of the current/last invocation
    pushes,       \* driver: pushPixels calls of the current/last invocation
    dmaBusy,      \* driver: a DMA transfer is still reading the pushed buffer
    readySignals, \* engine: lv_display_flush_ready calls of the invocation
    fault         \* "none", or the undefined behaviour the run has executed

vars == <<variant, pc, lv_inited, tick_cb, lcd_begun, w, h, dma_buf,
          buf1, disp_buf, disp, flush_cb, scene, area, px_map, fw, fh, y, src,
          lcdWindow, lcdWritten, addrCalls, pushes, dmaBusy, readySignals,
          fault>>

(***************************************************************************)
(* Program constants.                                                      *)
(***************************************************************************)
LCD_WIDTH == 320
LCD_HEIGHT == 480
StaticLen == 512

\* Bounds of the model: the tallest rectangle flushed, and how far from the
\* left edge a rectangle may start or end short of the right edge.
MaxRows == 2
MaxInset == 1

Variants == {"manual", "copilot"}

\* The display sizes setup() can obtain. manual hard-codes 320 x 480; copilot
\* reads lcd.width()/lcd.height() after setRotation(270), which the driver
\* either applies (480 x 320) or not (320 x 480).
DisplaySizes(v) ==
    IF v = "manual"
    THEN {<<LCD_WIDTH, LCD_HEIGHT>>}
    ELSE {<<LCD_HEIGHT, LCD_WIDTH>>, <<LCD_WIDTH, LCD_HEIGHT>>}

\* Fault injected into ManualOrder: the row buffer is allocated after the flush handler
\* is attached.
ManualOrderLate ==
    <<"lv_init", "tick_cb", "lcd_begin", "alloc_pixel", "disp_create",
      "draw_buf_init", "configure", "alloc_dma", "create_ui", "loop">>

\* The statements of setup() in program order, ending in loop().
ManualOrder ==
    <<"lv_init", "tick_cb", "lcd_begin", "alloc_dma", "alloc_pixel",
      "disp_create", "draw_buf_init", "configure", "create_ui", "loop">>

CopilotOrder ==
    <<"lv_init", "tick_cb", "lcd_begin", "alloc_pixel", "draw_buf_init",
      "disp_create", "configure", "alloc_dma", "create_ui", "loop">>

Order(v) == IF v = "manual" THEN ManualOrder ELSE CopilotOrder

IndexOf(seq, s) == CHOOSE i \in 1..Len(seq) : seq[i] = s

\* The statement that follows statement s when s falls through.
After(v, s) == Order(v)[IndexOf(Order(v), s) + 1]

\* Fault injected into FatalUnless: the failure is logged but setup() carries on.
FatalIgnored(ok, haltpc, nextpc) == nextpc

\* if (ptr == nullptr) { ...; while (1); }  and the lv_draw_buf_init check
FatalUnless(ok, haltpc, nextpc) == IF ok THEN nextpc ELSE haltpc

HaltPcs == {"halt_pixel", "halt_disp", "halt_draw_buf"}
RunPcs == {"loop", "flush"}

Halted == pc \in HaltPcs
Running == pc \in RunPcs

\* Fault injected into DmaBufAfterAlloc: no fallback, dma_buf stays null on failure.
DmaBufNoFallback(allocOk) == IF allocOk THEN "heap" ELSE "null"

\* dma_buf after the allocation and its fallback.
DmaBufAfterAlloc(allocOk) == IF allocOk THEN "heap" ELSE "static"

\* Fault injected into DmaCap: a static fallback buffer of half the size.
DmaCapHalf(p, width) ==
    CASE p = "heap" -> width
      [] p = "static" -> StaticLen \div 2
      [] OTHER -> 0

\* Samples the buffer dma_buf designates can hold.
DmaCap(p, width) ==
    CASE p = "heap" -> width
      [] p = "static" -> StaticLen
      [] OTHER -> 0

NoArea == [x1 |-> 0, y1 |-> 0, x2 |-> -1, y2 |-> -1]
NoWindow == [x |-> 0, y |-> 0, w |-> 0, h |-> 0]

Init ==
    /\ variant \in Variants
    /\ pc = "lv_init"
    /\ lv_inited = FALSE
    /\ tick_cb = FALSE
    /\ lcd_begun = FALSE
    /\ w = 0 /\ h = 0
    /\ dma_buf = "null"
    /\ buf1 = "null"
    /\ disp_buf = "uninit"
    /\ disp = "null"
    /\ flush_cb = FALSE
    /\ scene = FALSE
    /\ area = NoArea
    /\ px_map = <<>>
    /\ fw = 0 /\ fh = 0 /\ y = 0 /\ src = 0
    /\ lcdWindow = NoWindow
    /\ lcdWritten = 0
    /\ addrCalls = 0
    /\ pushes = <<>>
    /\ dmaBusy = FALSE
    /\ readySignals = 0
    /\ fault = "none"

flushVars == <<area, px_map, fw, fh, y, src, lcdWindow, lcdWritten, addrCalls,
               pushes, dmaBusy, readySignals, fault>>

(***************************************************************************)
(* setup()                                                                 *)
(***************************************************************************)
LvInit ==
    /\ pc = "lv_init"
    /\ lv_inited' = TRUE
    /\ pc' = After(variant, "lv_init")
    /\ UNCHANGED <<variant, tick_cb, lcd_begun, w, h, dma_buf, buf1,
                   disp_buf, disp, flush_cb, scene>>
    /\ UNCHANGED flushVars

TickSetCb ==
    /\ pc = "tick_cb"
    /\ tick_cb' = TRUE
    /\ pc' = After(variant, "tick_cb")
    /\ UNCHANGED <<variant, lv_inited, lcd_begun, w, h, dma_buf, buf1,
                   disp_buf, disp, flush_cb, scene>>
    /\ UNCHANGED flushVars

LcdBegin ==
    /\ pc = "lcd_begin"
    /\ lcd_begun' = TRUE
    /\ \E sz \in DisplaySizes(variant) : w' = sz[1] /\ h' = sz[2]
    /\ pc' = After(variant, "lcd_begin")
    /\ UNCHANGED <<variant, lv_inited, tick_cb, dma_buf, buf1,
                   disp_buf, disp, flush_cb, scene>>
    /\ UNCHANGED flushVars

AllocDmaBuf ==
    /\ pc = "alloc_dma"
    /\ \E allocOk \in BOOLEAN : dma_buf' = DmaBufAfterAlloc(allocOk)
    /\ pc' = After(variant, "alloc_dma")
    /\ UNCHANGED <<variant, lv_inited, tick_cb, lcd_begun, w, h, buf1,
                   disp_buf, disp, flush_cb, scene>>
    /\ UNCHANGED flushVars

AllocPixelBuf ==
    /\ pc = "alloc_pixel"
    /\ \E allocOk \in BOOLEAN :
         /\ buf1' = IF allocOk THEN "psram" ELSE "null"
         /\ pc' = FatalUnless(allocOk, "halt_pixel", After(variant, "alloc_pixel"))
    /\ UNCHANGED <<variant, lv_inited, tick_cb, lcd_begun, w, h, dma_buf,
                   disp_buf, disp, flush_cb, scene>>
    /\ UNCHANGED flushVars

DisplayCreate ==
    /\ pc = "disp_create"
    /\ \E created \in BOOLEAN :
         /\ disp' = IF created THEN "created" ELSE "null"
         /\ pc' = FatalUnless(created, "halt_disp", After(variant, "disp_create"))
    /\ UNCHANGED <<variant, lv_inited, tick_cb, lcd_begun, w, h, dma_buf,
                   buf1, disp_buf, flush_cb, scene>>
    /\ UNCHANGED flushVars

DrawBufInit ==
    /\ pc = "draw_buf_init"
    /\ \E initOk \in BOOLEAN :
         /\ disp_buf' = IF initOk THEN "ok" ELSE "err"
         /\ pc' = FatalUnless(initOk, "halt_draw_buf", After(variant, "draw_buf_init"))
    /\ UNCHANGED <<variant, lv_inited, tick_cb, lcd_begun, w, h, dma_buf,
                   buf1, disp, flush_cb, scene>>
    /\ UNCHANGED flushVars

ConfigureDisplay ==
    /\ pc = "configure"
    /\ flush_cb' = TRUE
    /\ pc' = After(variant, "configure")
    /\ UNCHANGED <<variant, lv_inited, tick_cb, lcd_begun, w, h, dma_buf,
                   buf1, disp_buf, disp, scene>>
    /\ UNCHANGED flushVars

CreateUi ==
    /\ pc = "create_ui"
    /\ scene' = TRUE
    /\ pc' = After(variant, "create_ui")
    /\ UNCHANGED <<variant, lv_inited, tick_cb, lcd_begun, w, h, dma_buf,
                   buf1, disp_buf, disp, flush_cb>>
    /\ UNCHANGED flushVars

setupVars == <<variant, lv_inited, tick_cb, lcd_begun, w, h, dma_buf, buf1,
               disp_buf, disp, flush_cb, scene>>

\* Fault injected into HaltSpin: the while (1); is missing and setup() falls through to
\* the statements after the check.
HaltFallThrough ==
    /\ Halted
    /\ pc' = "configure"
    /\ UNCHANGED <<variant, lv_inited, tick_cb, lcd_begun, w, h, dma_buf, buf1,
                   disp_buf, disp, flush_cb, scene>>
    /\ UNCHANGED flushVars

\* while (1);  after a fatal error
HaltSpin ==
    /\ Halted
    /\ UNCHANGED vars

(***************************************************************************)
(* my_disp_flush                                                           *)
(***************************************************************************)
\* Fault injected into RectW: the bounds taken as exclusive.
RectWExclusive(a) == a.x2 - a.x1

\* const int w = area->x2 - area->x1 + 1;
RectW(a) == a.x2 - a.x1 + 1

\* const int h = area->y2 - area->y1 + 1;
RectH(a) == a.y2 - a.y1 + 1

\* Fault injected into Bswap16: the samples are copied without the swap.
Bswap16None(s) == s

\* __builtin_bswap16 on a uint16_t: (s << 8) | (s >> 8), truncated to 16 bits
Bswap16(s) == ((s * 256) % 65536) + (s \div 256)

\* Fault injected into LoopCond: the last row is left out.
LoopCondShort(yy, hh) == yy < hh - 1

\* for (int y = 0; y < h; y++)
LoopCond(yy, hh) == yy < hh

\* Fault injected into NextSrc: src is not advanced.
NextSrcStuck(s, width) == s

\* src += w;
NextSrc(s, width) == s + width

\* for (int x = 0; x < w; x++) dma_buf[x] = __builtin_bswap16(src[x]);
\* The samples the loop stores in dma_buf[0 .. w-1], which are the samples
\* pushPixels(dma_buf, w, ...) is handed. px is a 1-based sequence, s the
\* 0-based offset of src in it. What dma_buf holds beyond index w-1 is read
\* by nobody, so the buffer is represented by its capacity alone.
ConvertRow(px, s, width) == [i \in 1..width |-> Bswap16(px[s + i])]

\* The undefined behaviour one row executes, if any: a write through a null
\* dma_buf, a write past the end of the row buffer, a read past px_map.
RowFault(p, cap, px, s, width) ==
    CASE p = "null" -> "null_deref"
      [] p # "null" /\ width > cap -> "oob_write"
      [] p # "null" /\ width <= cap /\ s + width > Len(px) -> "oob_read"
      [] OTHER -> "none"

\* The dirty rectangles the engine hands over: inside the display dw x dh,
\* x2 >= x1 and y2 >= y1; here 1 to MaxRows tall at the top or the bottom
\* edge, starting up to MaxInset from the left edge, one sample wide or
\* reaching the right edge.
DirtyRects(dw, dh) ==
    { [x1 |-> a, y1 |-> b, x2 |-> IF wide THEN dw - 1 ELSE a, y2 |-> b + k - 1] :
        a \in 0..MaxInset, wide \in BOOLEAN, b \in {0, dh - MaxRows}, k \in 1..MaxRows }

\* First samples of the rendered pixel data; sample k of the buffer is
\* (first + k) mod 2^16, so neighbouring samples and rows differ.
FirstSamples == {0, 255, 65280, 65535}

\* The tightly packed samples the engine rendered for rectangle r.
Rendered(r, first) ==
    [k \in 1..((r.x2 - r.x1 + 1) * (r.y2 - r.y1 + 1)) |-> (first + k - 1) % 65536]

\* lv_timer_handler() with nothing to redraw, then delay(5)
LoopIdle ==
    /\ pc = "loop"
    /\ UNCHANGED vars

\* Entry of my_disp_flush up to the row loop: w, h, setAddrWindow, src.
FlushBegin ==
    /\ pc = "loop"
    /\ flush_cb
    /\ \E r \in DirtyRects(w, h), first \in FirstSamples :
         /\ area' = r
         /\ px_map' = Rendered(r, first)
         /\ fw' = RectW(r)
         /\ fh' = RectH(r)
         /\ lcdWindow' = [x |-> r.x1, y |-> r.y1, w |-> RectW(r), h |-> RectH(r)]
    /\ lcdWritten' = 0
    /\ addrCalls' = 1
    /\ pushes' = <<>>
    /\ readySignals' = 0
    /\ src' = 0
    /\ y' = 0
    /\ pc' = "flush"
    /\ UNCHANGED <<dmaBusy, fault>>
    /\ UNCHANGED setupVars

\* One pass of the row loop: convert the row into dma_buf, pushPixels, src += w.
\* pushPixels reports nothing back; the driver may fail the transfer, and it
\* returns either after the DMA transfer or with the transfer still reading.
FlushRow ==
    /\ pc = "flush"
    /\ LoopCond(y, fh)
    /\ IF RowFault(dma_buf, DmaCap(dma_buf, w), px_map, src, fw) # "none"
       THEN /\ fault' = RowFault(dma_buf, DmaCap(dma_buf, w), px_map, src, fw)
            /\ pc' = "crashed"
            /\ UNCHANGED <<pushes, lcdWritten, dmaBusy, src, y>>
       ELSE /\ \E ok \in BOOLEAN, inFlight \in BOOLEAN :
                 /\ pushes' = Append(pushes, [data |-> ConvertRow(px_map, src, fw),
                                              ok |-> ok])
                 /\ dmaBusy' = inFlight
            /\ lcdWritten' = lcdWritten + fw
            /\ src' = NextSrc(src, fw)
            /\ y' = y + 1
            /\ UNCHANGED <<pc, fault>>
    /\ UNCHANGED <<area, px_map, fw, fh, lcdWindow, addrCalls, readySignals>>
    /\ UNCHANGED setupVars

\* lv_display_flush_ready(disp_ptr); and return to lv_timer_handler
FlushEnd ==
    /\ pc = "flush"
    /\ ~LoopCond(y, fh)
    /\ readySignals' = readySignals + 1
    /\ pc' = "loop"
    /\ UNCHANGED <<area, px_map, fw, fh, y, src, lcdWindow, lcdWritten,
                   addrCalls, pushes, dmaBusy, fault>>
    /\ UNCHANGED setupVars

\* The driver's DMA transfer of the last pushed row finishes.
DmaDone ==
    /\ dmaBusy
    /\ dmaBusy' = FALSE
    /\ UNCHANGED <<pc, area, px_map, fw, fh, y, src, lcdWindow,
                   lcdWritten, addrCalls, pushes, readySignals, fault>>
    /\ UNCHANGED setupVars

Next ==
    \/ LvInit
    \/ TickSetCb
    \/ LcdBegin
    \/ AllocDmaBuf
    \/ AllocPixelBuf
    \/ DisplayCreate
    \/ DrawBufInit
    \/ ConfigureDisplay
    \/ CreateUi
    \/ HaltSpin
    \/ LoopIdle
    \/ FlushBegin
    \/ FlushRow
    \/ FlushEnd
    \/ DmaDone

Spec == Init /\ [][Next]_vars

\* The program keeps running: a started flush executes its rows and returns.
LiveSpec == Spec /\ WF_vars(FlushRow) /\ WF_vars(FlushEnd)

(***************************************************************************)
(* Properties                                                              *)
(***************************************************************************)
\* Width and height of the rectangle of the current/last flush invocation,
\* from its inclusive bounds.
AreaW == area.x2 - area.x1 + 1
AreaH == area.y2 - area.y1 + 1

\* my_disp_flush has been entered at least once.
FlushSeen == addrCalls > 0

\* The last flush invocation has returned.
FlushReturned == FlushSeen /\ pc = "loop"

\* C1. Row coverage: while a flush runs it has issued y pushes and once it
\* has returned exactly h; every push carries exactly w samples, and push i
\* (counted from 0) carries the converted samples at offsets [i*w, (i+1)*w)
\* of px_map, so the w*h samples of px_map are delivered once each, in
\* row-major order.
RowCoverage ==
    FlushSeen =>
        /\ pc = "flush" => Len(pushes) = y /\ y <= AreaH
        /\ pc = "loop" => Len(pushes) = AreaH
        /\ Len(px_map) = AreaW * AreaH
        /\ \A i \in 1..Len(pushes) :
             pushes[i].data = [j \in 1..AreaW |-> Bswap16(px_map[(i - 1) * AreaW + j])]

\* A flush of two full rows of the 320-wide display has returned.
RowCoverageWitness ==
    /\ FlushReturned
    /\ AreaW = LCD_WIDTH /\ AreaH = 2
    /\ Len(pushes) = 2
    /\ pushes[2].data[1] = Bswap16(px_map[LCD_WIDTH + 1])

\* C2. Completion signalling: no signal is issued while the rows are being
\* pushed, the one signal of an invocation is issued after its last row
\* push whatever the pushes' outcomes, a returned invocation has signalled
\* exactly once, and every invocation gets to its signal.
CompletionSignal ==
    /\ [](pc = "flush" => readySignals = 0)
    /\ [](FlushReturned => readySignals = 1 /\ Len(pushes) = AreaH)
    /\ [][readySignals' # readySignals /\ readySignals' # 0
            => pc = "flush" /\ Len(pushes) = AreaH /\ readySignals' = 1
               /\ pushes' = pushes]_vars
    /\ (pc = "flush" ~> (pc = "loop" /\ readySignals = 1))

\* A flush whose two row pushes both failed at the driver has signalled once.
CompletionSignalWitness ==
    /\ FlushReturned
    /\ readySignals = 1
    /\ Len(pushes) = 2
    /\ ~pushes[1].ok /\ ~pushes[2].ok

\* swap16 as the specification states it.
Swap16(s) == ((s % 256) * 256) + (s \div 256)

\* C3. Byte-swap correctness: the sample handed to the driver at row i,
\* column j is swap16 of the source sample at that row and column; the
\* boundary values map as stated; the flush leaves px_map unchanged.
ByteSwapCorrect ==
    /\ [](\A i \in 1..Len(pushes) : \A j \in 1..Len(pushes[i].data) :
            /\ (i - 1) * AreaW + j <= Len(px_map)
            /\ pushes[i].data[j] = Swap16(px_map[(i - 1) * AreaW + j]))
    /\ [](FlushSeen =>
            /\ Bswap16(0) = 0 /\ Bswap16(65535) = 65535
            /\ Bswap16(255) = 65280 /\ Bswap16(65280) = 255)
    /\ [][pc = "flush" => px_map' = px_map]_vars

\* A returned flush whose first source sample is 0x00FF and whose second row
\* starts with 0x00FF + w: the driver got 0xFF00 first.
ByteSwapWitness ==
    /\ FlushReturned
    /\ AreaH = 2 /\ AreaW > 1
    /\ px_map[1] = 255
    /\ pushes[1].data[1] = 65280
    /\ pushes[2].data[1] = Swap16(255 + AreaW)

\* C4. Fallback buffer activation: a failed DMA allocation does not halt
\* bring-up and leaves dma_buf on the 512-sample static buffer; with that
\* buffer every flush (none is wider than 512) stays inside it and completes
\* with its h pushes and one completion signal.
FallbackActivation ==
    /\ [][pc = "alloc_dma" => dma_buf' \in {"heap", "static"} /\ ~Halted']_vars
    /\ [](dma_buf = "static" /\ FlushSeen =>
            /\ AreaW <= StaticLen
            /\ fault = "none" /\ pc # "crashed"
            /\ \A i \in 1..Len(pushes) : Len(pushes[i].data) = AreaW
            /\ pc = "loop" => Len(pushes) = AreaH /\ readySignals = 1)

\* With the static fallback in use, a two-row flush of the full width of the
\* rotated display (480) has returned.
FallbackWitness ==
    /\ dma_buf = "static"
    /\ FlushReturned
    /\ AreaW = LCD_HEIGHT /\ AreaH = 2
    /\ Len(pushes) = 2 /\ readySignals = 1

\* Some allocation or initialization step of setup() has failed.
StepFailed ==
    \/ dma_buf = "static"
    \/ pc = "halt_pixel"
    \/ pc = "halt_disp"
    \/ disp_buf = "err"

\* C5 as stated. Bring-up failure policy: no run in which an allocation or
\* initialization step failed reaches Running.
FailurePolicyAsStated == StepFailed => ~Running

\* C5 amended. A failed Pixel Buffer allocation, display creation or
\* draw-buffer initialization moves to a halt position at once, a halt
\* position is never left, and Running has all three in place; a failed Row
\* Transfer Buffer allocation does not halt.
FatalFailurePolicy ==
    /\ [][\/ (pc = "alloc_pixel" /\ buf1' = "null")
          \/ (pc = "disp_create" /\ disp' = "null")
          \/ (pc = "draw_buf_init" /\ disp_buf' = "err")
          => Halted']_vars
    /\ [][Halted => Halted']_vars
    /\ [](Running => buf1 = "psram" /\ disp = "created" /\ disp_buf = "ok")
    /\ [][pc = "alloc_dma" => ~Halted']_vars

\* The manual example has halted at the display-creation check after the Row
\* Transfer Buffer allocation had failed and been replaced by the fallback.
FatalFailureWitness ==
    /\ pc = "halt_disp"
    /\ dma_buf = "static"
    /\ buf1 = "psram" /\ disp = "null"

\* C6. Fatal halt is absorbing: from a halt position no step changes
\* anything, and at a halt position the flush callback is not attached and
\* has never run, the scene is not built and the render loop was never
\* entered.
HaltAbsorbing ==
    /\ [][Halted => UNCHANGED vars]_vars
    /\ [](Halted =>
            /\ ~flush_cb /\ ~scene
            /\ ~FlushSeen /\ pushes = <<>> /\ readySignals = 0
            /\ ~Running)
    /\ [](pc = "halt_pixel" => buf1 = "null")
    /\ [](pc = "halt_disp" => disp = "null")
    /\ [](pc = "halt_draw_buf" => disp_buf = "err")

\* The copilot example has halted at the draw-buffer initialization check.
HaltWitness ==
    /\ variant = "copilot"
    /\ pc = "halt_draw_buf"
    /\ buf1 = "psram" /\ disp_buf = "err"

\* The steps both examples take in the same order.
CommonOrder ==
    /\ tick_cb => lv_inited
    /\ lcd_begun => tick_cb
    /\ dma_buf # "null" => lcd_begun
    /\ buf1 # "null" => lcd_begun
    /\ disp # "null" => buf1 # "null"
    /\ flush_cb => disp # "null" /\ disp_buf = "ok"
    /\ scene => flush_cb /\ dma_buf # "null"
    /\ Running => scene

\* C7 as stated. Bring-up order: the steps occur in the one linear order, the
\* Row Transfer Buffer being allocated before the Pixel Buffer and before the
\* flush handler is attached.
BringUpOrderAsStated ==
    /\ CommonOrder
    /\ buf1 # "null" => dma_buf # "null"
    /\ flush_cb => dma_buf # "null"

\* C7 amended. Both examples take the common steps in order; the manual
\* example allocates the Row Transfer Buffer before the Pixel Buffer and
\* before attaching the flush handler, the copilot example allocates it after
\* attaching the flush handler, and both before the scene is built.
BringUpOrder ==
    /\ CommonOrder
    /\ variant = "manual" =>
         /\ buf1 # "null" => dma_buf # "null"
         /\ flush_cb => dma_buf # "null"
    /\ variant = "copilot" =>
         /\ dma_buf # "null" => flush_cb /\ buf1 # "null"

\* The manual example runs its render loop with every step done, the Row
\* Transfer Buffer from the DMA heap.
BringUpOrderWitness ==
    /\ variant = "manual"
    /\ pc = "loop"
    /\ lv_inited /\ tick_cb /\ lcd_begun /\ scene /\ flush_cb
    /\ dma_buf = "heap" /\ buf1 = "psram"

\* C8 as stated. No concurrent buffer access: the callback converts a row
\* into the Row Transfer Buffer only while no DMA transfer of an earlier push
\* is reading it.
NoConcurrentAccess == [][pc = "flush" /\ y' = y + 1 => ~dmaBusy]_vars

\* C9. Address-window protocol: an invocation calls setAddrWindow once,
\* before its first push, with origin (x1, y1) and size (w, h) from the
\* inclusive bounds; the driver has received y*w samples after y rows and
\* w*h when the invocation returns, which is what it holds when the next
\* setAddrWindow arrives.
AddrWindowProtocol ==
    /\ [](~FlushSeen => pushes = <<>> /\ lcdWritten = 0)
    /\ [](FlushSeen =>
            /\ addrCalls = 1
            /\ lcdWindow = [x |-> area.x1, y |-> area.y1, w |-> AreaW, h |-> AreaH]
            /\ pc = "flush" => lcdWritten = y * AreaW /\ Len(pushes) = y
            /\ pc = "loop" => lcdWritten = AreaW * AreaH)
    /\ [][pc = "loop" /\ pc' = "flush" /\ FlushSeen
            => lcdWritten = lcdWindow.w * lcdWindow.h /\ lcdWritten' = 0]_vars

\* A two-row flush starting one sample in from the left at the bottom of the
\* manual example's display has returned.
AddrWindowWitness ==
    /\ FlushReturned
    /\ lcdWindow = [x |-> 1, y |-> LCD_HEIGHT - MaxRows, w |-> LCD_WIDTH - 1, h |-> 2]
    /\ lcdWritten = 2 * (LCD_WIDTH - 1)

\* C10. Row buffer validity at flush time: no run executes a null or
\* out-of-bounds access, and whenever the flush callback executes dma_buf is
\* assigned and the buffer it designates holds at least w samples.
RowBufferValid ==
    /\ fault = "none" /\ pc # "crashed"
    /\ pc = "flush" =>
         /\ dma_buf # "null"
         /\ flush_cb
         /\ dma_buf = "heap" => AreaW <= w
         /\ dma_buf = "static" => AreaW <= StaticLen
         /\ fw <= DmaCap(dma_buf, w)

\* The copilot example, on the static fallback, has converted and pushed a
\* row of the full rotated width.
RowBufferWitness ==
    /\ variant = "copilot"
    /\ pc = "flush" /\ y = 1
    /\ dma_buf = "static"
    /\ fw = LCD_HEIGHT
    /\ Len(pushes[1].data) = LCD_HEIGHT
====
